---------------------------- MODULE Spec2Model ----------------------------
(***************************************************************************)
(* The reconcilers of library/rds_cluster.py (create_cluster) and          *)
(* library/rds_cluster_instance.py (create_db_instance), run from main()   *)
(* against a model of the RDS gateway (the boto3 client).                  *)
(*                                                                         *)
(* A Python dict is a function whose DOMAIN holds the keys; a parameter    *)
(* whose value is None is a key that is not in DOMAIN params.  A Python    *)
(* list is a sequence.  Security group ids sg-1, sg-2, ... are the         *)
(* naturals 1, 2, ... so that sorted() can order them.                     *)
(***************************************************************************)
EXTENDS Integers, Sequences, FiniteSets, TLC

VARIABLES
    module_name,   \* "rds_cluster" or "rds_cluster_instance": the module that runs
    module_params, \* module.params: the caller's input, with main's defaults
    params,        \* **params (args_dict): <<>> until main has built it
    remote,        \* the gateway's resource of the identifier
    pc,            \* position of the run in main / create_cluster / create_db_instance
    api_args,      \* api_args
    check,         \* check_cluster / check_instance: <<>> while unbound, else <<response>>
    resource,      \* the local cluster / instance: <<>> while unbound or None, else <<record>>
    modify_args,   \* modify_args
    result,        \* result: <<>> while unbound, else <<response>>
    tags_result,   \* tags_result: <<>> while unbound, else <<response>>
    e,             \* the ClientError being handled: <<>> or <<code>>
    calls,         \* the gateway calls of the run, in order
    first,         \* <<>> or <<outcome of the run's first describe>> ("found", ...)
    now,           \* time.time()
    wait_timeout,  \* the local wait_timeout (the deadline): <<>> or <<time>>
    ready,         \* ready
    polls,         \* the describe calls the polling loop has made
    seen,          \* TRUE once a poll of this run observed status 'available'
    report,        \* what the run handed to exit_json / fail_json: [kind |-> "none"] while running
    deleted,       \* deletions of the resource made by other callers
    runs,          \* the runs started so far
    converged,     \* the resource held the desired values when this run started
    polled         \* <<>> or <<response of the last poll of this run that returned>>

vars == <<module_name, module_params, params, remote, pc, api_args, check, resource,
          modify_args, result,
          tags_result, e,
          calls, first, now, wait_timeout, ready, polls, seen, report, deleted,
          runs, converged, polled>>

-----------------------------------------------------------------------------
(* Bounds of the model *)

\* Polls one run may make in the polling loop.
MaxPolls == 2
\* Deletions of the resource by other callers.
MaxDeleted == 1
\* Successive runs with the same parameters.
MaxRuns == 2
\* A wait_timeout given by the caller.
UserTimeout == 7
\* A gateway call that stalls for longer than every deadline.
Stall == 4000

(* Program constants *)

ClusterDefaultTimeout == 600
RestoreDefaultTimeout == 3600
\* an instance default below both cluster defaults
InstanceDefaultShort == 600 - 300
InstanceDefaultTimeout == 1200
\* a sleep shorter than the interval of the waiter
SleepIntervalShort == 5 - 2
SleepInterval == 5

-----------------------------------------------------------------------------
(* Python helpers *)

Range(s) == {s[i] : i \in 1..Len(s)}

\* [x] + s
Insert(x, s) ==
    LET k == Cardinality({i \in 1..Len(s) : s[i] <= x})
    IN  SubSeq(s, 1, k) \o <<x>> \o SubSeq(s, k + 1, Len(s))

RECURSIVE sorted(_)
\* sorted(list): the elements in ascending order, repeated elements kept
sorted(s) == IF s = <<>> THEN <<>> ELSE Insert(Head(s), sorted(Tail(s)))

\* str.lower() on the status strings of the gateway
lower(s) ==
    CASE s = "Available" -> "available"
      [] s = "AVAILABLE" -> "available"
      [] s = "Creating" -> "creating"
      [] OTHER -> s

RECURSIVE TagSeq(_)
\* [dict(Key=k, Value=v) for k, v in tags.iteritems()]
TagSeq(d) ==
    IF DOMAIN d = {} THEN <<>>
    ELSE LET k == CHOOSE x \in DOMAIN d : TRUE
         IN  <<[Key |-> k, Value |-> d[k]]>> \o TagSeq([x \in DOMAIN d \ {k} |-> d[x]])

\* the parameters whose value is False or 0 in every input of the model
FalsyParams == {"multi_az", "publicly_accessible", "monitoring_interval"}

\* an attribute added on the truth of the value instead of "is not None"
ArgIfTruthy(p, param, name) ==
    IF param \in DOMAIN p /\ param \notin FalsyParams THEN name :> p[param] ELSE <<>>

\* one entry of a dict when the parameter is set, nothing otherwise
Arg(p, param, name) == IF param \in DOMAIN p THEN name :> p[param] ELSE <<>>

IsCluster == module_name = "rds_cluster"

-----------------------------------------------------------------------------
(* Names that differ between the two modules *)

\* the parameter that holds the identifier of the resource
IdParam == IF IsCluster THEN "cluster_id" ELSE "instance_id"
\* the keyword argument that carries it
IdArg == IF IsCluster THEN "DBClusterIdentifier" ELSE "DBInstanceIdentifier"
\* the key of the resource list in a describe response
ListKey == IF IsCluster THEN "DBClusters" ELSE "DBInstances"
\* the key of the resource in a modify / create response
ItemKey == IF IsCluster THEN "DBCluster" ELSE "DBInstance"
\* the key of the status in a resource record
StatusKey == IF IsCluster THEN "Status" ELSE "DBInstanceStatus"
\* the error code that sends the run to the create branch
NotFoundCode == IF IsCluster THEN "DBClusterNotFoundFault" ELSE "DBInstanceNotFound"
\* any other error code of the gateway
OtherCode == "InternalFailure"
DescribeOp == IF IsCluster THEN "describe_db_clusters" ELSE "describe_db_instances"
ModifyOp == IF IsCluster THEN "modify_db_cluster" ELSE "modify_db_instance"
CreateOps == {"create_db_cluster", "restore_db_cluster_from_snapshot", "create_db_instance"}

-----------------------------------------------------------------------------
(* The gateway: the resource it holds and the records it returns.          *)
(* The resource's attributes are kept under the names of the keyword       *)
(* arguments that set them; the attached security groups are a set.        *)

NoResource ==
    [exists |-> FALSE, status |-> "absent", attrs |-> <<>>, tags |-> <<>>,
     creation |-> <<>>]

\* the keyword arguments of the create branch that the resource keeps as it was
\* created: no modify call of the modules can carry them
CreationKept ==
    IF IsCluster THEN {"Engine", "DBSubnetGroupName"}
    ELSE {"DBClusterIdentifier", "Engine", "DBSubnetGroupName"}

\* an attribute value as the gateway keeps it
Store(k, v) == IF k = "VpcSecurityGroupIds" THEN Range(v) ELSE v

ClusterDefaults ==
    [AvailabilityZones |-> <<"az-a", "az-b">>, EngineVersion |-> "5.6.10a",
     Port |-> 3306, OptionGroupName |-> "default:aurora-5-6",
     VpcSecurityGroupIds |-> {1, 2}]

InstanceDefaults ==
    [DBInstanceClass |-> "db.t2.small", AvailabilityZone |-> "az-a",
     PreferredMaintenanceWindow |-> "sun:05:00-sun:06:00",
     DBParameterGroupName |-> "default.aurora5.6", MultiAZ |-> FALSE,
     AutoMinorVersionUpgrade |-> TRUE, OptionGroupName |-> "default:aurora-5-6",
     PubliclyAccessible |-> FALSE, CopyTagsToSnapshot |-> TRUE,
     MonitoringInterval |-> 0, PromotionTier |-> 1,
     EnablePerformanceInsights |-> FALSE]

Defaults == IF IsCluster THEN ClusterDefaults ELSE InstanceDefaults

\* keyword arguments of a call that are not attributes the resource keeps
CallOnly == {"DBClusterIdentifier", "DBInstanceIdentifier", "ApplyImmediately", "Engine",
             "DBSubnetGroupName", "SnapshotIdentifier", "MasterUsername",
             "MasterUserPassword", "Tags"}

\* the attributes of the resource after a call with keyword arguments args
Stored(old, args) ==
    [k \in DOMAIN old \cup (DOMAIN args \ CallOnly) |->
        IF k \in DOMAIN args THEN Store(k, args[k]) ELSE old[k]]

\* the tags a Tags=[{Key, Value}, ...] argument sets
TagDict(seq) ==
    [k \in {seq[i].Key : i \in 1..Len(seq)} |->
        (CHOOSE t \in Range(seq) : t.Key = k).Value]

\* the resource a create / restore call with keyword arguments args makes
Created(args) ==
    [exists |-> TRUE, status |-> "creating", attrs |-> Stored(Defaults, args),
     tags |-> IF "Tags" \in DOMAIN args THEN TagDict(args["Tags"]) ELSE <<>>,
     creation |-> [k \in CreationKept \cap DOMAIN args |-> args[k]]]

\* the resource after a modify call with keyword arguments args
Modified(r, args) == [r EXCEPT !.attrs = Stored(r.attrs, args)]

\* keys a DBCluster record carries under the name of the keyword argument
ClusterPlainKeys == {"AvailabilityZones", "EngineVersion", "Port", "DatabaseName"}

\* keys a DBInstance record carries under the name of the keyword argument
InstancePlainKeys ==
    {"DBInstanceClass", "AvailabilityZone", "PreferredMaintenanceWindow", "MultiAZ",
     "AutoMinorVersionUpgrade", "PubliclyAccessible", "CopyTagsToSnapshot",
     "MonitoringInterval", "MonitoringRoleArn", "PromotionTier"}

RECURSIVE SetToSeq(_)
\* the elements of a set of naturals in ascending order
SetToSeq(S) ==
    IF S = {} THEN <<>>
    ELSE LET m == CHOOSE x \in S : \A y \in S : x <= y
         IN  <<m>> \o SetToSeq(S \ {m})

\* the DBCluster record of a describe / modify / create response
ClusterRecord(r) ==
    [k \in ClusterPlainKeys \cap DOMAIN r.attrs |-> r.attrs[k]]
    @@ [Status |-> r.status,
        VpcSecurityGroups |->
            LET ids == SetToSeq(r.attrs["VpcSecurityGroupIds"])
            IN  [i \in 1..Len(ids) |-> [VpcSecurityGroupId |-> ids[i], Status |-> "active"]],
        DBClusterOptionGroupMemberships |->
            <<[DBClusterOptionGroupName |-> r.attrs["OptionGroupName"], Status |-> "in-sync"]>>]

\* the DBInstance record of a describe / modify / create response
InstanceRecord(r) ==
    [k \in InstancePlainKeys \cap DOMAIN r.attrs |-> r.attrs[k]]
    @@ [DBInstanceStatus |-> r.status,
        DBInstanceArn |-> "arn:i1",
        DBParameterGroups |->
            <<[DBParameterGroupName |-> r.attrs["DBParameterGroupName"],
               ParameterApplyStatus |-> "in-sync"]>>,
        OptionGroupMemberships |->
            <<[OptionGroupName |-> r.attrs["OptionGroupName"], Status |-> "in-sync"]>>,
        PerformanceInsightsEnabled |-> r.attrs["EnablePerformanceInsights"]]

Record(r) == IF IsCluster THEN ClusterRecord(r) ELSE InstanceRecord(r)

\* a describe response that holds the resource
Found(r) == ListKey :> <<Record(r)>>

\* describe responses that do not hold exactly one resource
Malformed == {ListKey :> <<>>, [ResponseMetadata |-> "ok"]}

\* statuses the gateway reports for a resource
Statuses == {"available", "Available", "creating"}

\* one call in the log of the run
Call(op, args) == [op |-> op, args |-> args]

-----------------------------------------------------------------------------
(* The caller's input: module.params after AnsibleModule applied the       *)
(* defaults of module_args                                                 *)

\* an optional parameter: left unset, or set to one of vals
Opt(param, vals) == {<<>>} \cup {param :> v : v \in vals}

ClusterInputs ==
    {[cluster_id |-> "c1", engine |-> "aurora", subnet_group |-> "subnet1",
      state |-> st, wait |-> w[1], wait_timeout |-> w[2]]
        @@ port @@ azs @@ og @@ sgs @@ tg @@ snap @@ cred :
        st \in {"present", "absent"},
        w \in {<<FALSE, 0>>, <<TRUE, 0>>, <<TRUE, UserTimeout>>},
        port \in Opt("port", {3307}),
        azs \in Opt("availability_zones", {<<"az-b", "az-a">>}),
        og \in Opt("option_group", {"og1"}),
        sgs \in Opt("vpc_security_group_ids", {<<2, 1>>, <<1, 2, 2>>, <<3>>}),
        tg \in Opt("tags", {[Name |-> "x"]}),
        snap \in Opt("snapshot_arn", {"arn:snap1"}),
        cred \in {<<>>, [master_username |-> "admin", master_password |-> "secret"]}}

InstanceInputs ==
    {[instance_id |-> "i1", engine |-> "aurora", apply_immediately |-> FALSE,
      auto_minor_version_upgrade |-> TRUE, copy_tags_to_snapshot |-> TRUE,
      monitoring_interval |-> 0, multi_az |-> FALSE, publicly_accessible |-> FALSE,
      performance_insights |-> pi, tags |-> tg,
      state |-> st, wait |-> w[1], wait_timeout |-> w[2]]
        @@ cl @@ it @@ pg @@ og :
        st \in {"present", "absent"},
        w \in {<<FALSE, InstanceDefaultTimeout>>, <<TRUE, InstanceDefaultTimeout>>,
               <<TRUE, UserTimeout>>, <<TRUE, 0>>},
        pi \in BOOLEAN,
        tg \in {<<>>, [Name |-> "x"]},
        cl \in {[cluster_id |-> "c1", subnet_group |-> "subnet1"]},
        it \in Opt("instance_type", {"db.r3.large"}),
        pg \in Opt("parameter_group", {"pg1"}),
        og \in Opt("option_group", {"og1"})}

Inputs == IF IsCluster THEN ClusterInputs ELSE InstanceInputs

\* the resource as another run or caller left it
Existing ==
    [exists |-> TRUE, status |-> "available", attrs |-> Defaults,
     tags |-> IF IsCluster THEN <<>> ELSE [Old |-> "y"],
     creation |-> [k \in CreationKept |->
                      CASE k = "Engine" -> "aurora-postgresql"
                        [] k = "DBSubnetGroupName" -> "subnet0"
                        [] k = "DBClusterIdentifier" -> "c0"]]

-----------------------------------------------------------------------------
(* The desired-state normalizer: api_args as the function builds it        *)

create_cluster_api_args(p) ==
    Arg(p, "availability_zones", "AvailabilityZones")
    @@ Arg(p, "engine_version", "EngineVersion")
    @@ Arg(p, "port", "Port")
    @@ Arg(p, "database_name", "DatabaseName")
    @@ Arg(p, "option_group", "OptionGroupName")
    @@ Arg(p, "vpc_security_group_ids", "VpcSecurityGroupIds")
    @@ (IF "tags" \in DOMAIN p THEN "Tags" :> TagSeq(p["tags"]) ELSE <<>>)

create_db_instance_api_args(p) ==
    Arg(p, "instance_type", "DBInstanceClass")
    @@ Arg(p, "availability_zone", "AvailabilityZone")
    @@ Arg(p, "preferred_maintenance_window", "PreferredMaintenanceWindow")
    @@ Arg(p, "parameter_group", "DBParameterGroupName")
    @@ Arg(p, "multi_az", "MultiAZ")
    @@ Arg(p, "auto_minor_version_upgrade", "AutoMinorVersionUpgrade")
    @@ Arg(p, "option_group", "OptionGroupName")
    @@ Arg(p, "publicly_accessible", "PubliclyAccessible")
    @@ Arg(p, "copy_tags_to_snapshot", "CopyTagsToSnapshot")
    @@ Arg(p, "monitoring_interval", "MonitoringInterval")
    @@ Arg(p, "monitoring_role_arn", "MonitoringRoleArn")
    @@ Arg(p, "promotion_tier", "PromotionTier")
    @@ Arg(p, "performance_insights", "EnablePerformanceInsights")
    @@ Arg(p, "cloudwatch_logs_exports", "EnableCloudwatchLogsExports")

\* the local tags of create_db_instance: <<>> for None, else <<list>>
tags == IF "tags" \in DOMAIN params THEN <<TagSeq(params["tags"])>> ELSE <<>>

-----------------------------------------------------------------------------
(* The diff of the desired attributes against the fetched record           *)

\* the comparison of create_cluster for one desired attribute
ClusterDiffers(cluster, opt, val) ==
    IF opt = "VpcSecurityGroupIds"
    THEN sorted([i \in 1..Len(cluster["VpcSecurityGroups"]) |->
                    cluster["VpcSecurityGroups"][i].VpcSecurityGroupId]) # sorted(val)
    ELSE cluster[opt] # val

\* cluster[opt] raises KeyError
ClusterKeyError(cluster, args) ==
    \E opt \in DOMAIN args : opt # "VpcSecurityGroupIds" /\ opt \notin DOMAIN cluster

\* the comparison without the branch that unwraps the parameter groups
InstanceDiffersNoUnwrap(instance, opt, val) ==
    CASE opt = "EnablePerformanceInsights" ->
            instance["PerformanceInsightsEnabled"] # val
      [] OTHER -> opt \notin DOMAIN instance \/ instance[opt] # val

\* the comparison of create_db_instance for one desired attribute
InstanceDiffers(instance, opt, val) ==
    CASE opt = "DBParameterGroupName" ->
            [i \in 1..Len(instance["DBParameterGroups"]) |->
                instance["DBParameterGroups"][i].DBParameterGroupName] # <<val>>
      [] opt = "EnablePerformanceInsights" ->
            instance["PerformanceInsightsEnabled"] # val
      [] OTHER -> opt \notin DOMAIN instance \/ instance[opt] # val

Differs(rec, opt, val) ==
    IF IsCluster THEN ClusterDiffers(rec, opt, val) ELSE InstanceDiffers(rec, opt, val)

\* modify_args after the loop over api_args
Diff(rec, args) ==
    [opt \in {o \in DOMAIN args : Differs(rec, o, args[o])} |-> args[opt]]

\* the record the run's describe fetched: check[ListKey][0]
Fetched == check[1][ListKey][1]

\* the keyword arguments of the modify call
ModifyCallArgs ==
    (IdArg :> params[IdParam])
    @@ (IF IsCluster THEN <<>> ELSE "ApplyImmediately" :> params["apply_immediately"])
    @@ modify_args

\* the default put in place of whatever wait_timeout the caller gave
WithDefaultAlways(p, default) ==
    IF IsCluster THEN [p EXCEPT !["wait_timeout"] = default] ELSE p

\* params['wait_timeout'] after the default of the found / create branch
WithDefault(p, default) ==
    IF IsCluster /\ p["wait_timeout"] = 0
    THEN [p EXCEPT !["wait_timeout"] = default] ELSE p

-----------------------------------------------------------------------------
(* The run *)

Running == [kind |-> "none"]

\* the values of the locals before a run
Fresh ==
    /\ params = <<>>
    /\ pc = "main"
    /\ api_args = <<>>
    /\ check = <<>>
    /\ resource = <<>>
    /\ modify_args = <<>>
    /\ result = <<>>
    /\ tags_result = <<>>
    /\ e = <<>>
    /\ calls = <<>>
    /\ first = <<>>
    /\ now = 0
    /\ wait_timeout = <<>>
    /\ ready = FALSE
    /\ polls = 0
    /\ seen = FALSE
    /\ polled = <<>>
    /\ report = Running

\* the resource holds every value the caller asked for
Converged(r, p) ==
    /\ r.exists
    /\ LET want == IF IsCluster THEN create_cluster_api_args(p)
                   ELSE create_db_instance_api_args(p)
       IN  \A k \in DOMAIN want \ {"Tags"} :
               k \in DOMAIN r.attrs /\ r.attrs[k] = Store(k, want[k])
    /\ "tags" \in DOMAIN p => r.tags = p["tags"]

Init ==
    /\ module_name \in {"rds_cluster", "rds_cluster_instance"}
    /\ module_params \in Inputs
    /\ remote \in {NoResource, Existing}
    /\ Fresh
    /\ deleted = 0
    /\ runs = 1
    /\ converged = Converged(remote, module_params)

\* module.exit_json(result=result)
exit_json(res) == report' = [kind |-> "exit", result |-> res] /\ pc' = "done"

\* module.fail_json(msg=..., api_args=api_args)
fail_json(msg, args) ==
    report' = [kind |-> "fail", msg |-> msg, api_args |-> args] /\ pc' = "done"

\* an exception nothing catches ends the run with a traceback
crash(error) == report' = [kind |-> "crash", error |-> error] /\ pc' = "done"

\* main: args_dict, then the dispatch on state; terminate_cluster and
\* terminate_db_instance are names no module defines
Main ==
    /\ pc = "main"
    /\ params' = module_params
    /\ IF module_params["state"] = "present"
       THEN pc' = "normalize" /\ UNCHANGED report
       ELSE crash("NameError")
    /\ UNCHANGED <<module_name, module_params, polled, resource, remote, api_args, check, modify_args,
                   result, tags_result, e, calls, first, now, wait_timeout, ready,
                   polls, seen, deleted, runs, converged>>

\* create_cluster / create_db_instance up to the try statement
Normalize ==
    /\ pc = "normalize"
    /\ api_args' = IF IsCluster THEN create_cluster_api_args(params)
                   ELSE create_db_instance_api_args(params)
    /\ pc' = "describe"
    /\ UNCHANGED <<module_name, module_params, polled, resource, params, remote, check, modify_args,
                   result, tags_result, e, calls, first, now, wait_timeout, ready,
                   polls, seen, report, deleted, runs, converged>>

DescribeCall == Call(DescribeOp, IdArg :> params[IdParam])

\* the first describe returns the resource
DescribeFound ==
    /\ pc = "describe"
    /\ remote.exists
    /\ calls' = Append(calls, DescribeCall)
    /\ check' = <<Found(remote)>>
    /\ first' = <<"found">>
    /\ pc' = "diff"
    /\ UNCHANGED <<module_name, module_params, polled, resource, params, remote, api_args, modify_args,
                   result, tags_result, e, now, wait_timeout, ready, polls, seen,
                   report, deleted, runs, converged>>

\* the first describe returns no list, or a list that does not hold one resource
DescribeMalformed ==
    /\ pc = "describe"
    /\ \E m \in Malformed : check' = <<m>>
    /\ calls' = Append(calls, DescribeCall)
    /\ first' = <<"malformed">>
    /\ report' = [kind |-> "fail", msg |-> "Failed to retrieve details"]
    /\ pc' = "done"
    /\ UNCHANGED <<module_name, module_params, polled, resource, params, remote, api_args, modify_args,
                   result, tags_result, e, now, wait_timeout, ready, polls, seen,
                   deleted, runs, converged>>

\* error codes a call on the resource can raise
ErrorCodes == {OtherCode} \cup (IF remote.exists THEN {} ELSE {NotFoundCode})

\* the first describe raises ClientError
DescribeError ==
    /\ pc = "describe"
    /\ \E code \in ErrorCodes :
        /\ e' = <<code>>
        /\ first' = <<IF code = NotFoundCode THEN "notfound" ELSE "error">>
    /\ calls' = Append(calls, DescribeCall)
    /\ pc' = "except"
    /\ UNCHANGED <<module_name, module_params, polled, resource, params, remote, api_args, check,
                   modify_args, result, tags_result, now, wait_timeout, ready, polls,
                   seen, report, deleted, runs, converged>>

\* where the try block goes after the modify step
AfterModify == IF IsCluster THEN "wait" ELSE "list_tags"

\* the loop over api_args, and the else branch of "if modify_args"
ComputeDiff ==
    /\ pc = "diff"
    /\ resource' = <<Fetched>>
    /\ IF IsCluster /\ ClusterKeyError(Fetched, api_args)
       THEN /\ crash("KeyError")
            /\ UNCHANGED <<modify_args, result, params>>
       ELSE /\ modify_args' = Diff(Fetched, api_args)
            /\ UNCHANGED report
            /\ IF DOMAIN modify_args' # {}
               THEN pc' = "modify" /\ UNCHANGED <<result, params>>
               ELSE /\ result' = <<ItemKey :> Fetched>>
                    /\ params' = WithDefault(params, ClusterDefaultTimeout)
                    /\ pc' = AfterModify
    /\ UNCHANGED <<module_name, module_params, polled, remote, api_args, check, tags_result, e,
                   calls, first, now, wait_timeout, ready, polls, seen, deleted, runs,
                   converged>>

\* modify_db_cluster / modify_db_instance returns
ModifyOk ==
    /\ pc = "modify"
    /\ remote.exists
    /\ calls' = Append(calls, Call(ModifyOp, ModifyCallArgs))
    /\ remote' = Modified(remote, ModifyCallArgs)
    /\ result' = <<ItemKey :> Record(remote')>>
    /\ params' = WithDefault(params, ClusterDefaultTimeout)
    /\ pc' = AfterModify
    /\ UNCHANGED <<module_name, module_params, polled, resource, api_args, check, modify_args,
                   tags_result, e, first, now, wait_timeout, ready, polls, seen, report,
                   deleted, runs, converged>>

\* ResourceName of the tag calls
Arn == Fetched["DBInstanceArn"]

\* a remove call that names no key
NoTagKeys == <<>>

\* TagKeys of the remove call: [t['Key'] for t in tags_result['TagList']]
TagKeys == [i \in 1..Len(tags_result[1]["TagList"]) |-> tags_result[1]["TagList"][i].Key]

\* list_tags_for_resource returns
ListTagsOk ==
    /\ pc = "list_tags"
    /\ remote.exists
    /\ calls' = Append(calls, Call("list_tags_for_resource", [ResourceName |-> Arn]))
    /\ tags_result' = <<[TagList |-> TagSeq(remote.tags)]>>
    /\ pc' = IF "TagList" \in DOMAIN tags_result'[1] THEN "remove_tags" ELSE "wait"
    /\ UNCHANGED <<module_name, module_params, polled, resource, params, remote, api_args, check,
                   modify_args, result, e, first, now, wait_timeout, ready, polls, seen,
                   report, deleted, runs, converged>>

\* remove_tags_from_resource returns
RemoveTagsOk ==
    /\ pc = "remove_tags"
    /\ remote.exists
    /\ calls' = Append(calls, Call("remove_tags_from_resource",
                                   [ResourceName |-> Arn, TagKeys |-> TagKeys]))
    /\ remote' = [remote EXCEPT !.tags = [k \in DOMAIN remote.tags \ Range(TagKeys) |->
                                             remote.tags[k]]]
    /\ pc' = IF tags # <<>> THEN "add_tags" ELSE "wait"
    /\ UNCHANGED <<module_name, module_params, polled, resource, params, api_args, check, modify_args,
                   result, tags_result, e, first, now, wait_timeout, ready, polls, seen,
                   report, deleted, runs, converged>>

\* api_args['Tags'] = tags, then add_tags_to_resource returns
AddTagsOk ==
    /\ pc = "add_tags"
    /\ remote.exists
    /\ api_args' = ("Tags" :> tags[1]) @@ api_args
    /\ calls' = Append(calls, Call("add_tags_to_resource",
                                   [ResourceName |-> Arn, Tags |-> tags[1]]))
    /\ remote' = [remote EXCEPT !.tags = TagDict(tags[1]) @@ remote.tags]
    /\ pc' = "wait"
    /\ UNCHANGED <<module_name, module_params, polled, resource, params, check, modify_args, result,
                   tags_result, e, first, now, wait_timeout, ready, polls, seen, report,
                   deleted, runs, converged>>

\* the call the try block is about to make
PendingCall ==
    CASE pc = "modify" -> Call(ModifyOp, ModifyCallArgs)
      [] pc = "list_tags" -> Call("list_tags_for_resource", [ResourceName |-> Arn])
      [] pc = "remove_tags" ->
            Call("remove_tags_from_resource", [ResourceName |-> Arn, TagKeys |-> TagKeys])
      [] pc = "add_tags" ->
            Call("add_tags_to_resource", [ResourceName |-> Arn, Tags |-> tags[1]])

\* a failing call of the try block that undoes the earlier calls of the run
TryErrorRollsBack ==
    /\ pc \in {"modify", "list_tags", "remove_tags", "add_tags"}
    /\ \E code \in ErrorCodes : e' = <<code>>
    /\ calls' = Append(calls, PendingCall)
    /\ api_args' = IF pc = "add_tags" THEN ("Tags" :> tags[1]) @@ api_args ELSE api_args
    /\ remote' = IF remote.exists THEN Existing ELSE remote
    /\ pc' = "except"
    /\ UNCHANGED <<module_name, module_params, polled, resource, params, check,
                   modify_args, result, tags_result, first, now, wait_timeout, ready,
                   polls, seen, report, deleted, runs, converged>>

\* a call of the try block after the describe raises ClientError
TryError ==
    /\ pc \in {"modify", "list_tags", "remove_tags", "add_tags"}
    /\ \E code \in ErrorCodes : e' = <<code>>
    /\ calls' = Append(calls, PendingCall)
    /\ api_args' = IF pc = "add_tags" THEN ("Tags" :> tags[1]) @@ api_args ELSE api_args
    /\ pc' = "except"
    /\ UNCHANGED <<module_name, module_params, polled, resource, params, remote, check, modify_args,
                   result, tags_result, first, now, wait_timeout, ready, polls, seen,
                   report, deleted, runs, converged>>

\* api_args of the create branch of create_cluster
ClusterCreateKeys(p) ==
    Arg(p, "subnet_group", "DBSubnetGroupName")
    @@ Arg(p, "engine", "Engine")
    @@ Arg(p, "cluster_id", "DBClusterIdentifier")

\* api_args of the create branch of create_db_instance
InstanceCreateKeys(p) ==
    (IF tags # <<>> THEN "Tags" :> tags[1] ELSE <<>>)
    @@ Arg(p, "subnet_group", "DBSubnetGroupName")
    @@ Arg(p, "engine", "Engine")
    @@ Arg(p, "cluster_id", "DBClusterIdentifier")
    @@ ("DBInstanceIdentifier" :> p["instance_id"])

\* the handler without the test of the error code: every error creates
ExceptAnyCode ==
    /\ pc = "except"
    /\ api_args' = (IF IsCluster THEN ClusterCreateKeys(params)
                    ELSE InstanceCreateKeys(params)) @@ api_args
    /\ pc' = "create"
    /\ UNCHANGED <<module_name, module_params, polled, resource, params, remote, check,
                   modify_args, result, tags_result, e, calls, first, now, wait_timeout,
                   ready, polls, seen, report, deleted, runs, converged>>

\* except botocore.exceptions.ClientError as e
Except ==
    /\ pc = "except"
    /\ IF e[1] = NotFoundCode
       THEN /\ api_args' = (IF IsCluster THEN ClusterCreateKeys(params)
                            ELSE InstanceCreateKeys(params)) @@ api_args
            /\ pc' = "create"
            /\ UNCHANGED report
       ELSE /\ fail_json(e[1], api_args)
            /\ UNCHANGED api_args
    /\ UNCHANGED <<module_name, module_params, polled, resource, params, remote, check, modify_args,
                   result, tags_result, e, calls, first, now, wait_timeout, ready, polls,
                   seen, deleted, runs, converged>>

\* the create branch restores from the snapshot
Restores == IsCluster /\ "snapshot_arn" \in DOMAIN params

\* the create branch without the test of snapshot_arn
CreateOpIgnoresSnapshot ==
    IF ~IsCluster THEN "create_db_instance" ELSE "create_db_cluster"

\* the call of the create branch
CreateOp ==
    IF ~IsCluster THEN "create_db_instance"
    ELSE IF Restores THEN "restore_db_cluster_from_snapshot" ELSE "create_db_cluster"

\* a create branch that adds the master credentials before either call
CreateArgsAlwaysCredentials ==
    IF ~IsCluster THEN api_args
    ELSE (IF Restores THEN "SnapshotIdentifier" :> params["snapshot_arn"] ELSE <<>>)
         @@ Arg(params, "master_password", "MasterUserPassword")
         @@ Arg(params, "master_username", "MasterUsername") @@ api_args

\* api_args as the create branch submits it
CreateArgs ==
    IF ~IsCluster THEN api_args
    ELSE IF Restores THEN ("SnapshotIdentifier" :> params["snapshot_arn"]) @@ api_args
    ELSE Arg(params, "master_password", "MasterUserPassword")
         @@ Arg(params, "master_username", "MasterUsername") @@ api_args

\* the create / restore call returns
CreateOk ==
    /\ pc = "create"
    /\ ~remote.exists
    /\ api_args' = CreateArgs
    /\ calls' = Append(calls, Call(CreateOp, api_args'))
    /\ remote' = Created(api_args')
    /\ result' = <<ItemKey :> Record(remote')>>
    /\ params' = WithDefault(params, IF Restores THEN RestoreDefaultTimeout
                                     ELSE ClusterDefaultTimeout)
    /\ pc' = "wait"
    /\ UNCHANGED <<module_name, module_params, polled, resource, check, modify_args, tags_result, e, first,
                   now, wait_timeout, ready, polls, seen, report, deleted, runs,
                   converged>>

\* the create / restore call raises ClientError
CreateError ==
    /\ pc = "create"
    /\ api_args' = CreateArgs
    /\ calls' = Append(calls, Call(CreateOp, api_args'))
    /\ e' = <<OtherCode>>
    /\ fail_json(e'[1], api_args')
    /\ UNCHANGED <<module_name, module_params, polled, resource, params, remote, check, modify_args,
                   result, tags_result, first, now, wait_timeout, ready, polls, seen,
                   deleted, runs, converged>>

\* another caller deletes the resource between two calls of the try block
ExternalDelete ==
    /\ pc \in {"diff", "modify", "list_tags", "remove_tags", "add_tags"}
    /\ remote.exists
    /\ deleted < MaxDeleted
    /\ remote' = NoResource
    /\ deleted' = deleted + 1
    /\ UNCHANGED <<module_name, module_params, polled, resource, params, pc, api_args, check, modify_args,
                   result, tags_result, e, calls, first, now, wait_timeout, ready, polls,
                   seen, report, runs, converged>>

-----------------------------------------------------------------------------
(* The convergence waiter *)

\* the test of the while loop, at time t
LoopTest(rdy, deadline, t) == ~rdy /\ deadline > t

\* how long a describe call of the polling loop can take
PollTimes == {0, Stall}

\* a waiter that is entered whether or not wait is set
WaitStartAlways ==
    /\ pc = "wait"
    /\ wait_timeout' = <<now + params["wait_timeout"]>>
    /\ ready' = FALSE
    /\ pc' = IF LoopTest(ready', wait_timeout'[1], now) THEN "poll" ELSE "wait_end"
    /\ UNCHANGED <<module_name, module_params, polled, resource, params, remote, api_args,
                   check, modify_args, result, tags_result, e, calls, first, now, polls,
                   seen, report, deleted, runs, converged>>

\* "if params['wait']" up to the first test of the loop; exit_json without wait
WaitStart ==
    /\ pc = "wait"
    /\ IF params["wait"]
       THEN /\ wait_timeout' = <<now + params["wait_timeout"]>>
            /\ ready' = FALSE
            /\ pc' = IF LoopTest(ready', wait_timeout'[1], now) THEN "poll" ELSE "wait_end"
            /\ UNCHANGED report
       ELSE /\ exit_json(result[1])
            /\ UNCHANGED <<wait_timeout, ready>>
    /\ UNCHANGED <<module_name, module_params, polled, resource, params, remote, api_args, check,
                   modify_args, result, tags_result, e, calls, first, now, polls, seen,
                   deleted, runs, converged>>

\* a poll that is satisfied with any status of the resource
IsReadyAnyStatus(resp) ==
    /\ ListKey \in DOMAIN resp
    /\ Len(resp[ListKey]) = 1

\* the response of a poll makes the resource ready
IsReady(resp) ==
    /\ ListKey \in DOMAIN resp
    /\ Len(resp[ListKey]) = 1
    /\ lower(resp[ListKey][1][StatusKey]) = "available"

\* a poll returns a response with the resource
PollFound ==
    /\ pc = "poll"
    /\ polls < MaxPolls
    /\ remote.exists
    /\ \E d \in PollTimes : now' = now + d
    /\ \E s \in Statuses : remote' = [remote EXCEPT !.status = s]
    /\ check' = <<Found(remote')>>
    /\ ready' = IsReady(check'[1])
    /\ seen' = (seen \/ ready')
    /\ polled' = check'
    /\ calls' = Append(calls, DescribeCall)
    /\ polls' = polls + 1
    /\ pc' = IF ready' THEN "wait_end" ELSE "sleep"
    /\ UNCHANGED <<module_name, module_params, resource, params, api_args, modify_args, result,
                   tags_result, e, first, wait_timeout, report, deleted, runs, converged>>

\* a poll returns a response without the resource
PollMalformed ==
    /\ pc = "poll"
    /\ polls < MaxPolls
    /\ \E d \in PollTimes : now' = now + d
    /\ \E m \in Malformed : check' = <<m>>
    /\ ready' = IsReady(check'[1])
    /\ polled' = check'
    /\ calls' = Append(calls, DescribeCall)
    /\ polls' = polls + 1
    /\ pc' = IF ready' THEN "wait_end" ELSE "sleep"
    /\ UNCHANGED <<module_name, module_params, resource, params, remote, api_args, modify_args,
                   result, tags_result, e, first, wait_timeout, seen, report, deleted,
                   runs, converged>>

\* a poll raises ClientError, which the loop swallows
PollError ==
    /\ pc = "poll"
    /\ polls < MaxPolls
    /\ \E d \in PollTimes : now' = now + d
    /\ calls' = Append(calls, DescribeCall)
    /\ polls' = polls + 1
    /\ pc' = "sleep"
    /\ UNCHANGED <<module_name, module_params, polled, resource, params, remote, api_args, check,
                   modify_args, result, tags_result, e, first, wait_timeout, ready, seen,
                   report, deleted, runs, converged>>

\* time.sleep(5), then the test of the loop
Sleep ==
    /\ pc = "sleep"
    /\ now' = now + SleepInterval
    /\ pc' = IF LoopTest(ready, wait_timeout[1], now') THEN "poll" ELSE "wait_end"
    /\ UNCHANGED <<module_name, module_params, polled, resource, params, remote, api_args, check,
                   modify_args, result, tags_result, e, calls, first, wait_timeout,
                   ready, polls, seen, report, deleted, runs, converged>>

\* the deadline has passed when the loop is left
TimedOut(deadline, t) == deadline <= t

\* the record the timeout reports: <<>> for None
LastRecord(resp) ==
    IF ListKey \in DOMAIN resp /\ Len(resp[ListKey]) = 1 THEN <<resp[ListKey][1]>> ELSE <<>>

\* an end of the wait that reports the record of the last poll as the result
WaitEndReportsPolled ==
    /\ pc = "wait_end"
    /\ IF TimedOut(wait_timeout[1], now)
       THEN IF check = <<>>
            THEN crash("NameError") /\ UNCHANGED resource
            ELSE /\ resource' = LastRecord(check[1])
                 /\ report' = [kind |-> "fail", msg |-> "Timed out",
                               resource |-> resource']
                 /\ pc' = "done"
       ELSE exit_json(ItemKey :> check[1][ListKey][1]) /\ UNCHANGED resource
    /\ UNCHANGED <<module_name, module_params, polled, params, remote, api_args, check,
                   modify_args, result, tags_result, e, calls, first, now, wait_timeout,
                   ready, polls, seen, deleted, runs, converged>>

\* after the loop: the timeout failure, or exit_json
WaitEnd ==
    /\ pc = "wait_end"
    /\ IF TimedOut(wait_timeout[1], now)
       THEN IF check = <<>>
            THEN crash("NameError") /\ UNCHANGED resource
            ELSE /\ resource' = LastRecord(check[1])
                 /\ report' = [kind |-> "fail", msg |-> "Timed out",
                               resource |-> resource']
                 /\ pc' = "done"
       ELSE exit_json(result[1]) /\ UNCHANGED resource
    /\ UNCHANGED <<module_name, module_params, polled, params, remote, api_args, check,
                   modify_args, result, tags_result, e, calls, first, now, wait_timeout,
                   ready, polls, seen, deleted, runs, converged>>

\* the caller runs the module again with the same parameters
Rerun ==
    /\ pc = "done"
    /\ report.kind = "exit"
    /\ runs < MaxRuns
    /\ runs' = runs + 1
    /\ converged' = Converged(remote, module_params)
    /\ params' = <<>>
    /\ pc' = "main"
    /\ api_args' = <<>>
    /\ check' = <<>>
    /\ resource' = <<>>
    /\ modify_args' = <<>>
    /\ result' = <<>>
    /\ tags_result' = <<>>
    /\ e' = <<>>
    /\ calls' = <<>>
    /\ first' = <<>>
    /\ now' = 0
    /\ wait_timeout' = <<>>
    /\ ready' = FALSE
    /\ polls' = 0
    /\ seen' = FALSE
    /\ report' = Running
    /\ deleted' = 0
    /\ polled' = <<>>
    /\ UNCHANGED <<module_name, module_params, remote>>

Next ==
    \/ Main
    \/ Normalize
    \/ DescribeFound
    \/ DescribeMalformed
    \/ DescribeError
    \/ ComputeDiff
    \/ ModifyOk
    \/ ListTagsOk
    \/ RemoveTagsOk
    \/ AddTagsOk
    \/ TryError
    \/ Except
    \/ CreateOk
    \/ CreateError
    \/ ExternalDelete
    \/ WaitStart
    \/ PollFound
    \/ PollMalformed
    \/ PollError
    \/ Sleep
    \/ WaitEnd
    \/ Rerun

Spec == Init /\ [][Next]_vars

-----------------------------------------------------------------------------
(* Properties *)

\* the positions in calls of the calls of the operations ops
CallsOf(ops) == {i \in DOMAIN calls : calls[i].op \in ops}

ModifyOps == {"modify_db_cluster", "modify_db_instance"}
DeleteOps == {"delete_db_cluster", "delete_db_instance"}

\* the diff against the fetched record has been computed
DiffDone ==
    /\ first = <<"found">>
    /\ resource # <<>>
    /\ pc \notin {"describe", "diff"}
    /\ report.kind # "crash"

\* C1: a run whose first describe returned the resource issues no creation call
\* (create_db_cluster, restore_db_cluster_from_snapshot, create_db_instance),
\* whatever the later calls of the run return.
C1_NoCreateWhenFound == first = <<"found">> => CallsOf(CreateOps) = {}

\* C2: a modify call carries a non-empty MutationSet and is issued at most once
\* per run; when the first describe found the resource and the MutationSet is
\* empty there is no modify call and the reported result is the fetched record.
C2_EmptyDiffReturnsFetched ==
    /\ \A i \in CallsOf(ModifyOps) :
           DOMAIN calls[i].args \ {IdArg, "ApplyImmediately"} # {}
    /\ Cardinality(CallsOf(ModifyOps)) <= 1
    /\ (DiffDone /\ DOMAIN modify_args = {}) =>
           /\ CallsOf(ModifyOps) = {}
           /\ report.kind = "exit" => report.result = (ItemKey :> resource[1])

\* C3: in create_cluster the create branch calls exactly one of
\* restore_db_cluster_from_snapshot and create_db_cluster, exactly once: the
\* restore when snapshot_arn is set, the direct create when it is not.
C3_RestoreXorCreate ==
    IsCluster =>
        /\ Cardinality(CallsOf(CreateOps)) <= 1
        /\ \A i \in CallsOf(CreateOps) :
               calls[i].op = IF "snapshot_arn" \in DOMAIN module_params
                             THEN "restore_db_cluster_from_snapshot"
                             ELSE "create_db_cluster"
        /\ (e = <<NotFoundCode>> /\ pc \in {"wait", "poll", "sleep", "wait_end", "done"})
               => Cardinality(CallsOf(CreateOps)) = 1

\* a cluster run that restored from the snapshot and ended in success
C3_Witness_Restore ==
    /\ IsCluster
    /\ first = <<"notfound">>
    /\ "snapshot_arn" \in DOMAIN module_params
    /\ \E i \in DOMAIN calls : calls[i].op = "restore_db_cluster_from_snapshot"
    /\ report.kind = "exit"

\* C4: a create or restore call is issued only after the first describe
\* signalled the not-found code; when the first describe fails with another
\* code the run fails and issues no other call.
C4_CreateOnlyAfterNotFoundDescribe ==
    /\ CallsOf(CreateOps) # {} => first = <<"notfound">>
    /\ first = <<"error">> =>
           /\ Len(calls) = 1
           /\ pc = "done" => report.kind = "fail"

\* the desired list of security groups, when given, repeats no id (a list that
\* repeats one is the case of C7)
NoRepeatedIds ==
    "vpc_security_group_ids" \in DOMAIN module_params =>
        Cardinality(Range(module_params["vpc_security_group_ids"]))
            = Len(module_params["vpc_security_group_ids"])

\* C5: a second run with the same parameters against a resource that holds
\* every desired value issues no modify, create or restore call (no other
\* caller touching the resource meanwhile).
C5_SecondRunIdempotent ==
    (runs >= 2 /\ converged /\ deleted = 0 /\ NoRepeatedIds) =>
        CallsOf(ModifyOps \cup CreateOps) = {}

\* the desired attributes whose value differs from the value the resource holds
TrulyDiffering ==
    {k \in DOMAIN api_args :
        IF k = "Tags" THEN TagDict(api_args[k]) # remote.tags
        ELSE k \notin DOMAIN remote.attrs \/ remote.attrs[k] # Store(k, api_args[k])}

\* C6: the attributes sent by the modify call are exactly the desired attributes
\* whose value differs from the resource's current value (the identifier and
\* the ApplyImmediately option of the instance module are not counted).
C6_ModifyArgsMinimal ==
    (pc = "modify" /\ remote.exists /\ NoRepeatedIds) =>
        DOMAIN ModifyCallArgs \ {IdArg, "ApplyImmediately"} = TrulyDiffering

\* the ids of the security groups of a cluster record
Attached(cluster) ==
    {cluster["VpcSecurityGroups"][i].VpcSecurityGroupId :
        i \in 1..Len(cluster["VpcSecurityGroups"])}

\* C7: in create_cluster VpcSecurityGroupIds is in the MutationSet iff the set
\* of desired ids differs from the set of attached ids, whatever the order of
\* the desired list and whatever ids it repeats.
C7_SecurityGroupsAsSets ==
    (IsCluster /\ DiffDone /\ "VpcSecurityGroupIds" \in DOMAIN api_args) =>
        ("VpcSecurityGroupIds" \in DOMAIN modify_args
            <=> Range(api_args["VpcSecurityGroupIds"]) # Attached(resource[1]))

\* C8: a run with state=absent issues a delete call for the identifier and
\* reports success when the resource is absent.
C8_AbsentDeletes ==
    (module_params["state"] = "absent" /\ pc = "done") =>
        /\ CallsOf(DeleteOps) # {}
        /\ ~remote.exists => report.kind = "exit"

\* the run failed with the timeout of the waiter
TimeoutReported == report.kind = "fail" /\ report.msg = "Timed out"

\* C9: the timeout failure is reported only if no poll of the run observed the
\* resource in status 'available'.
C9_NoTimeoutOnceAvailable == TimeoutReported => ~seen

\* a describe response with exactly one resource, in status 'available' in any case
ObservedAvailable(resp) ==
    /\ ListKey \in DOMAIN resp
    /\ Len(resp[ListKey]) = 1
    /\ resp[ListKey][1][StatusKey] \in {"available", "Available", "AVAILABLE"}

\* C10: with wait enabled the run reports success only if a poll of the waiter
\* returned exactly one resource whose status is 'available' in any case.
C10_SuccessOnlyIfAvailable ==
    (module_params["wait"] /\ report.kind = "exit") =>
        /\ polls >= 1
        /\ seen
        /\ check # <<>>
        /\ ObservedAvailable(check[1])

\* a waiting run that succeeded on a poll that returned status 'Available'
C10_Witness_AvailableSeen ==
    /\ module_params["wait"]
    /\ report.kind = "exit"
    /\ polls = 2
    /\ check[1][ListKey][1][StatusKey] = "Available"

\* the run has left the polling loop at or past its deadline and has ended
DeadlineEnded ==
    pc = "done" /\ wait_timeout # <<>> /\ TimedOut(wait_timeout[1], now)

\* the record of the last poll of the wait that returned: <<>> for None
LastPolled == IF polled = <<>> THEN <<>> ELSE LastRecord(polled[1])

\* C11: when the deadline of a wait that polled expires, the run fails with the
\* timeout, and the timeout carries the record of the last poll that returned,
\* none if every poll of the wait failed, on the found and on the create path
C11_TimeoutCarriesLastPoll ==
    (DeadlineEnded /\ polls > 0) =>
        TimeoutReported /\ report.resource = LastPolled

\* ceil(d / 5): the polls of a wait of d units at one poll per 5 units
Ceil5(d) == (d + 4) \div 5

\* the polling loop has been left with the status never seen as available
LoopLeftNotReady == pc = "wait_end" /\ ~ready

C13_OnlyTimeoutFailsTheWait ==
    (pc = "done" /\ polls > 0) =>
        /\ report.kind = "exit" \/ TimeoutReported
        /\ (seen /\ ~TimedOut(wait_timeout[1], now)) => report.kind = "exit"

\* C14: a failure that reports api_args (the failure of a gateway call outside
\* the polling loop) reports exactly the arguments of the call that failed, the
\* last call of the run
C14_ReportedArgsAreSubmittedArgs ==
    (report.kind = "fail" /\ "api_args" \in DOMAIN report) =>
        report.api_args = calls[Len(calls)].args

\* the run is handling, or has failed with, an error other than not-found
OtherErrorRaised == e # <<>> /\ e[1] # NotFoundCode

\* C15: outside the polling loop a gateway call that returns an error other
\* than not-found is terminal: the run goes to its handler and ends in the
\* failure of that error, no step after the error adds a gateway call, a failed
\* run takes no further step, and no run issues two create / restore calls or
\* two modify calls
C15_FailedCallIsTerminal ==
    /\ [](/\ OtherErrorRaised =>
                /\ pc \in {"except", "done"}
                /\ pc = "done" => report.kind = "fail" /\ report.msg = e[1]
          /\ Cardinality(CallsOf(CreateOps)) <= 1
          /\ Cardinality(CallsOf(ModifyOps)) <= 1)
    /\ [][/\ report.kind # "fail"
          /\ OtherErrorRaised => calls' = calls /\ report'.kind = "fail"]_vars

\* a modify call failed after the describe, and the run ended in failure
C15_Witness_ModifyFailed ==
    /\ pc = "done"
    /\ e = <<OtherCode>>
    /\ report.kind = "fail"
    /\ Len(calls) = 2
    /\ calls[2].op \in ModifyOps

\* the tags of the instance when the run began
TagsBefore == IF runs = 1 THEN Existing.tags ELSE module_params["tags"]

\* C16: a successful run on an instance that exists throughout reconciles the
\* tags whether or not it modified anything and whether or not the tags differ:
\* after the describe and the modify call, if any, it lists the tags, removes
\* every tag key the instance had, and adds the desired tags, in that order;
\* the instance then carries exactly the desired tags
C16_TagsReconciledEveryRun ==
    (~IsCluster /\ first = <<"found">> /\ deleted = 0 /\ report.kind = "exit") =>
        LET k == IF DOMAIN modify_args # {} THEN 2 ELSE 1
        IN  /\ Len(calls) >= k + 3
            /\ k = 2 => calls[2].op = ModifyOp
            /\ calls[k + 1].op = "list_tags_for_resource"
            /\ calls[k + 2].op = "remove_tags_from_resource"
            /\ Range(calls[k + 2].args.TagKeys) = DOMAIN TagsBefore
            /\ calls[k + 3].op = "add_tags_to_resource"
            /\ calls[k + 3].args.Tags = TagSeq(module_params["tags"])
            /\ \A i \in (k + 4)..Len(calls) : calls[i].op = DescribeOp
            /\ remote.tags = module_params["tags"]

\* a second run with nothing to modify and the tags already in place
C16_Witness_UnchangedTagsReconciled ==
    /\ ~IsCluster
    /\ runs = 2
    /\ report.kind = "exit"
    /\ DOMAIN modify_args = {}
    /\ module_params["tags"] = [Name |-> "x"]
    /\ Len(calls) = 4
    /\ calls[4].op = "add_tags_to_resource"

\* the run has issued the restore call
Restored == CallsOf({"restore_db_cluster_from_snapshot"}) # {}

C18_ZeroMeansDefault ==
    (module_params["wait_timeout"] = 0 /\ wait_timeout # <<>>) =>
        /\ wait_timeout[1] \in (IF IsCluster THEN {600, 3600} ELSE {1200})
        /\ pc \in {"wait_end", "done"} => polls > 0

\* the run waits under the default deadline of its module: the caller left
\* wait_timeout at the value main gives it (0 for a cluster, the argument
\* default for an instance)
WaitsUnderDefault ==
    /\ wait_timeout # <<>>
    /\ module_params["wait_timeout"] = IF IsCluster THEN 0 ELSE InstanceDefaultTimeout

\* C19 as stated: the default deadline of an instance wait differs from and is
\* shorter than both default deadlines of a cluster wait, 600 and 3600
C19_InstanceDefaultShortest ==
    (WaitsUnderDefault /\ ~IsCluster) =>
        wait_timeout[1] < 600 /\ wait_timeout[1] < 3600

\* C19 amended: the default deadline of a cluster wait is 600 or 3600; that of
\* an instance wait differs from both, is shorter than the restore default and
\* longer than the direct-create default
C19_InstanceDefaultBetween ==
    WaitsUnderDefault =>
        IF IsCluster THEN wait_timeout[1] \in {600, 3600}
        ELSE 600 < wait_timeout[1] /\ wait_timeout[1] < 3600

\* an instance run that polled under its default deadline
C19_Witness_InstanceDefaultWait ==
    /\ ~IsCluster
    /\ WaitsUnderDefault
    /\ wait_timeout = <<InstanceDefaultTimeout>>
    /\ polls = 1

\* the attribute each parameter of create_cluster's normalizer stands for
ClusterArgNames ==
    [availability_zones |-> "AvailabilityZones", engine_version |-> "EngineVersion",
     port |-> "Port", database_name |-> "DatabaseName",
     option_group |-> "OptionGroupName",
     vpc_security_group_ids |-> "VpcSecurityGroupIds", tags |-> "Tags"]

\* the attribute each parameter of create_db_instance's normalizer stands for
InstanceArgNames ==
    [instance_type |-> "DBInstanceClass", availability_zone |-> "AvailabilityZone",
     preferred_maintenance_window |-> "PreferredMaintenanceWindow",
     parameter_group |-> "DBParameterGroupName", multi_az |-> "MultiAZ",
     auto_minor_version_upgrade |-> "AutoMinorVersionUpgrade",
     option_group |-> "OptionGroupName", publicly_accessible |-> "PubliclyAccessible",
     copy_tags_to_snapshot |-> "CopyTagsToSnapshot",
     monitoring_interval |-> "MonitoringInterval",
     monitoring_role_arn |-> "MonitoringRoleArn", promotion_tier |-> "PromotionTier",
     performance_insights |-> "EnablePerformanceInsights",
     cloudwatch_logs_exports |-> "EnableCloudwatchLogsExports"]

ArgNames == IF IsCluster THEN ClusterArgNames ELSE InstanceArgNames

\* the attributes only the create branch adds, by parameter
CreateArgNames ==
    [subnet_group |-> "DBSubnetGroupName", engine |-> "Engine",
     cluster_id |-> "DBClusterIdentifier", snapshot_arn |-> "SnapshotIdentifier",
     master_username |-> "MasterUsername", master_password |-> "MasterUserPassword"]

\* the value api_args holds under name is the caller's value of param; the tags
\* of a cluster are held as the list of the caller's key/value pairs
CallersValue(param, name) ==
    IF param = "tags"
    THEN /\ TagDict(api_args[name]) = params[param]
         /\ Len(api_args[name]) = Cardinality(DOMAIN params[param])
    ELSE api_args[name] = params[param]

\* C20: once a run of state=present has built api_args, it holds the attribute
\* of a parameter of the normalizer if and only if the parameter is set, with
\* the caller's value; as built it holds nothing else; and the attribute of an
\* unset parameter is in no modify_args and in no modify, create or restore call
C20_OnlySetParametersNormalized ==
    (/\ params # <<>>
     /\ params["state"] = "present"
     /\ pc \notin {"main", "normalize"}) =>
        /\ \A q \in DOMAIN ArgNames :
              /\ q \in DOMAIN params <=> ArgNames[q] \in DOMAIN api_args
              /\ q \in DOMAIN params => CallersValue(q, ArgNames[q])
        /\ (pc = "describe" /\ calls = <<>>) =>
              DOMAIN api_args = {ArgNames[q] : q \in DOMAIN ArgNames \cap DOMAIN params}
        /\ \A q \in (DOMAIN ArgNames \cup DOMAIN CreateArgNames) \ DOMAIN params :
              LET name == IF q \in DOMAIN ArgNames THEN ArgNames[q]
                          ELSE CreateArgNames[q]
              IN  /\ name \notin DOMAIN modify_args
                  /\ \A i \in CallsOf(ModifyOps \cup CreateOps) :
                        name \notin DOMAIN calls[i].args

\* a cluster created with a port and without an option group
C20_Witness_CreateWithoutUnset ==
    /\ IsCluster
    /\ "port" \in DOMAIN params
    /\ "option_group" \notin DOMAIN params
    /\ "master_username" \notin DOMAIN params
    /\ \E i \in CallsOf({"create_db_cluster"}) :
          /\ calls[i].args["Port"] = params["port"]
          /\ "OptionGroupName" \notin DOMAIN calls[i].args

\* the overrides the caller set, by attribute name
SetOverrides == {ClusterArgNames[q] : q \in DOMAIN ClusterArgNames \cap DOMAIN module_params}

\* the keyword arguments args carry the caller's value of every override set
OverridesCarried(args) ==
    \A q \in DOMAIN ClusterArgNames \cap DOMAIN module_params :
        /\ ClusterArgNames[q] \in DOMAIN args
        /\ IF q = "tags" THEN TagDict(args["Tags"]) = module_params["tags"]
           ELSE args[ClusterArgNames[q]] = module_params[q]

\* identifier, engine and subnet group as the caller gave them
BaseCarried(args) ==
    /\ args["DBClusterIdentifier"] = module_params["cluster_id"]
    /\ args["Engine"] = module_params["engine"]
    /\ args["DBSubnetGroupName"] = module_params["subnet_group"]

\* C21: a restore call carries identifier, engine, subnet group and snapshot
\* reference plus exactly the overrides that are set, and no master
\* credentials; a direct-create call carries identifier, engine and subnet
\* group, each master credential that is set, and exactly the same overrides,
\* and no snapshot reference
C21_CreateAndRestoreArguments ==
    IsCluster =>
        /\ \A i \in CallsOf({"restore_db_cluster_from_snapshot"}) :
              /\ DOMAIN calls[i].args =
                    {"DBClusterIdentifier", "Engine", "DBSubnetGroupName",
                     "SnapshotIdentifier"} \cup SetOverrides
              /\ BaseCarried(calls[i].args)
              /\ calls[i].args["SnapshotIdentifier"] = module_params["snapshot_arn"]
              /\ OverridesCarried(calls[i].args)
        /\ \A i \in CallsOf({"create_db_cluster"}) :
              /\ DOMAIN calls[i].args =
                    {"DBClusterIdentifier", "Engine", "DBSubnetGroupName"}
                    \cup SetOverrides
                    \cup (IF "master_username" \in DOMAIN module_params
                          THEN {"MasterUsername"} ELSE {})
                    \cup (IF "master_password" \in DOMAIN module_params
                          THEN {"MasterUserPassword"} ELSE {})
              /\ BaseCarried(calls[i].args)
              /\ "master_username" \in DOMAIN module_params =>
                    calls[i].args["MasterUsername"] = module_params["master_username"]
              /\ "master_password" \in DOMAIN module_params =>
                    calls[i].args["MasterUserPassword"] = module_params["master_password"]
              /\ OverridesCarried(calls[i].args)

\* a restore by a caller who also gave master credentials and a port
C21_Witness_RestoreWithoutCredentials ==
    /\ IsCluster
    /\ "master_username" \in DOMAIN module_params
    /\ "port" \in DOMAIN module_params
    /\ \E i \in CallsOf({"restore_db_cluster_from_snapshot"}) :
          /\ "MasterUsername" \notin DOMAIN calls[i].args
          /\ calls[i].args["Port"] = module_params["port"]

\* the parameter-group name associated with the fetched instance
AssociatedParameterGroup == resource[1]["DBParameterGroups"][1].DBParameterGroupName

\* C22: once create_db_instance has computed modify_args (and until a timeout
\* rebinds the local instance to the polled record), DBParameterGroupName
\* is in it if and only if a parameter group is desired and its name is not the
\* name held by the one-element DBParameterGroups list of the fetched record
C22_ParameterGroupUnwrapped ==
    (~IsCluster /\ DiffDone /\ ~TimeoutReported) =>
        /\ Len(resource[1]["DBParameterGroups"]) = 1
        /\ "DBParameterGroupName" \in DOMAIN modify_args <=>
              /\ "parameter_group" \in DOMAIN params
              /\ params["parameter_group"] # AssociatedParameterGroup
        /\ "DBParameterGroupName" \in DOMAIN modify_args =>
              modify_args["DBParameterGroupName"] = params["parameter_group"]

\* a second run that finds the desired parameter group associated
C22_Witness_SameParameterGroup ==
    /\ ~IsCluster
    /\ DiffDone
    /\ "parameter_group" \in DOMAIN params
    /\ AssociatedParameterGroup = params["parameter_group"]
    /\ "DBParameterGroupName" \notin DOMAIN modify_args

-----------------------------------------------------------------------------
(* Termination of the wait *)

\* the steps of the run itself: every step but the other caller's deletion and
\* the caller's next run
RunStep ==
    \/ Main
    \/ Normalize
    \/ DescribeFound
    \/ DescribeMalformed
    \/ DescribeError
    \/ ComputeDiff
    \/ ModifyOk
    \/ ListTagsOk
    \/ RemoveTagsOk
    \/ AddTagsOk
    \/ TryError
    \/ Except
    \/ CreateOk
    \/ CreateError
    \/ WaitStart
    \/ PollFound
    \/ PollMalformed
    \/ PollError
    \/ Sleep
    \/ WaitEnd

\* the inputs whose deadline MaxPolls polls can exhaust: a wait_timeout given by
\* the caller, or the zero deadline of an instance run with wait_timeout=0
LiveInit ==
    /\ Init
    /\ module_params["wait"] =>
          /\ Ceil5(module_params["wait_timeout"]) <= MaxPolls
          /\ IsCluster => module_params["wait_timeout"] # 0

\* the run keeps going: the clock advances and each gateway call returns or
\* raises
LiveSpec == LiveInit /\ [][Next]_vars /\ WF_vars(RunStep)

\* the run is about to enter the waiter with wait enabled
WaitBegun == pc = "wait" /\ params["wait"]

\* the wait of every run comes to an end
WaitTerminates == WaitBegun ~> (pc = "done")

\* C23: with wait enabled and a finite deadline, a run that reaches the waiter
\* eventually ends in success or in the timeout failure, provided the run keeps
\* taking steps
C23_WaitEndsInSuccessOrTimeout ==
    WaitBegun ~> (pc = "done" /\ (report.kind = "exit" \/ TimeoutReported))

-----------------------------------------------------------------------------
(* Runs without wait, partial effects, and the reported result *)

\* C24: a run with wait disabled never enters the polling loop: it makes no
\* describe call besides the initial one, sets no deadline and reports no
\* timeout, and its step at the waiter reports success with the result of the
\* reconcile step at once, without a gateway call
C24_NoWaitReportsAtOnce ==
    /\ [](~module_params["wait"] =>
            /\ polls = 0
            /\ wait_timeout = <<>>
            /\ ~TimeoutReported
            /\ Cardinality(CallsOf({DescribeOp})) <= 1
            /\ report.kind = "exit" => report.result = result[1])
    /\ [][(pc = "wait" /\ ~module_params["wait"]) =>
            /\ pc' = "done"
            /\ report'.kind = "exit"
            /\ report'.result = result[1]
            /\ calls' = calls]_vars

\* a run without wait that reports success while the resource is being created
C24_Witness_ExitWhileCreating ==
    /\ ~module_params["wait"]
    /\ report.kind = "exit"
    /\ remote.status = "creating"
    /\ report.result[ItemKey][StatusKey] = "creating"
    /\ CallsOf(CreateOps) # {}

\* the add call of an instance that exists throughout has raised an error other
\* than not-found, and the run has ended
AddTagsFailed ==
    /\ ~IsCluster
    /\ deleted = 0
    /\ pc = "done"
    /\ e = <<OtherCode>>
    /\ calls[Len(calls)].op = "add_tags_to_resource"

\* C25: nothing is rolled back. No step from the raising of an error other than
\* not-found to the failure report changes the resource at the gateway; and
\* when the add call fails after the remove call succeeded, the run ends in
\* failure with the instance left without the tags it had and with the modify
\* of the run, if any, still applied
C25_NoRollback ==
    /\ [](AddTagsFailed =>
            /\ report.kind = "fail"
            /\ remote.exists
            /\ DOMAIN remote.tags = {}
            /\ \A k \in DOMAIN modify_args : remote.attrs[k] = Store(k, modify_args[k]))
    /\ [][(e' # <<>> /\ e'[1] # NotFoundCode /\ runs' = runs) => remote' = remote]_vars

\* the add call failed after a modify of the instance class and the removal of
\* the tag the instance had
C25_Witness_TagsLostModifyKept ==
    /\ AddTagsFailed
    /\ runs = 1
    /\ "DBInstanceClass" \in DOMAIN modify_args
    /\ remote.attrs["DBInstanceClass"] = "db.r3.large"
    /\ remote.tags = <<>>
    /\ module_params["tags"] = [Name |-> "x"]

\* the positions of the waiter
WaitPcs == {"wait", "poll", "sleep", "wait_end"}

\* C26: with wait enabled, no step of the waiter changes result, and a run that
\* ends in success reports the result of the reconcile step: the response of
\* the create or restore call (status 'creating'), the modify response, or the
\* fetched record when no call changed the resource; never the polled record
C26_ResultNotUpdatedByWaiter ==
    /\ [][(pc \in WaitPcs /\ module_params["wait"]) =>
            /\ result' = result
            /\ report'.kind = "exit" => report'.result = result[1]]_vars
    /\ []((report.kind = "exit" /\ module_params["wait"]) =>
            /\ DOMAIN report.result = {ItemKey}
            /\ CallsOf(CreateOps) # {} => report.result[ItemKey][StatusKey] = "creating"
            /\ CallsOf(CreateOps \cup ModifyOps) = {} =>
                  report.result[ItemKey] = resource[1])

\* a successful wait on a created resource: the last poll saw 'available', the
\* reported result still says 'creating'
C26_Witness_ResultStillCreating ==
    /\ module_params["wait"]
    /\ report.kind = "exit"
    /\ seen
    /\ lower(check[1][ListKey][1][StatusKey]) = "available"
    /\ report.result[ItemKey][StatusKey] = "creating"

\* the keyword arguments that only the create branch may send
CreationOnly ==
    IF IsCluster
    THEN {"Engine", "DBSubnetGroupName", "SnapshotIdentifier", "MasterUsername",
          "MasterUserPassword"}
    ELSE {"DBClusterIdentifier", "Engine", "DBSubnetGroupName"}

\* the caller's value of a creation-only input the resource keeps
CreationInput(k) ==
    CASE k = "Engine" -> params["engine"]
      [] k = "DBSubnetGroupName" -> params["subnet_group"]
      [] k = "DBClusterIdentifier" -> params["cluster_id"]

\* the run found a resource that holds every desired attribute and differs from
\* the caller's input in a creation-only input
DiffersOnlyInCreationInputs ==
    /\ first = <<"found">>
    /\ converged
    /\ deleted = 0
    /\ CallsOf(CreateOps) = {}
    /\ \E k \in CreationKept : remote.creation[k] # CreationInput(k)

\* no modify call carries a creation-only input
ModifyWithoutCreationInputs ==
    \A i \in CallsOf(ModifyOps) : DOMAIN calls[i].args \cap CreationOnly = {}

\* C27: no modify call carries a creation-only input, and a run whose input
\* differs from the existing resource only in creation-only inputs issues no
\* modify call
C27_CreationInputsNeverModified ==
    /\ ModifyWithoutCreationInputs
    /\ DiffersOnlyInCreationInputs => CallsOf(ModifyOps) = {}

=============================================================================
